---- MODULE Spec2Model ----
(***************************************************************************)
(* Model of llm_fb2_translator.py: one run of                              *)
(* AdvancedLLMFB2Translator.process_fb2_structure over a parsed FB2 tree.  *)
(*                                                                         *)
(* A string is a sequence of characters; a character is a one-token        *)
(* string.  Cyrillic letters are written by name ("CYR_SHA" is the capital *)
(* letter sha, "cyr_sha" the small one), Latin letters with a diacritic    *)
(* likewise ("LAT_S_CARON").  None is a value distinct from every string.  *)
(***************************************************************************)
EXTENDS Integers, Sequences, FiniteSets, TLC

(* ---------------------------- bounds ----------------------------------- *)

\* largest number of elements of an input document
MaxNodes == 4

\* largest number of text/tail slots of an input document that hold text
MaxFilled == 2

(* ---------------------------- strings ---------------------------------- *)

None == <<"<None>">>

\* characters str.strip() removes
Whitespace == {" ", "\n"}

\* Python truthiness of an Optional[str]
Truthy(s) == s # None /\ s # <<>>

RECURSIVE LStrip(_)
LStrip(s) == IF s # <<>> /\ Head(s) \in Whitespace THEN LStrip(Tail(s)) ELSE s

RECURSIVE RStrip(_)
RStrip(s) ==
    IF s # <<>> /\ s[Len(s)] \in Whitespace
    THEN RStrip(SubSeq(s, 1, Len(s) - 1))
    ELSE s

\* str.strip()
Strip(s) == RStrip(LStrip(s))

\* str.endswith('\n')
EndsWithNewline(s) == s # <<>> /\ s[Len(s)] = "\n"

\* the cased letters the model's texts are written in: small |-> capital
UpperOf ==
    [c \in {"cyr_a", "cyr_be", "cyr_sha", "cyr_u", "cyr_em"} |->
        CASE c = "cyr_a" -> "CYR_A"
          [] c = "cyr_be" -> "CYR_BE"
          [] c = "cyr_sha" -> "CYR_SHA"
          [] c = "cyr_u" -> "CYR_U"
          [] c = "cyr_em" -> "CYR_EM"]

\* str.islower() and str.isupper() of one character
IsLower(c) == c \in DOMAIN UpperOf
IsUpper(c) == c \in {UpperOf[x] : x \in DOMAIN UpperOf}

\* str.upper() of one character
Upper(c) == IF c \in DOMAIN UpperOf THEN UpperOf[c] ELSE c

(* ------------------- LLMTranslator: pure helpers ------------------------ *)

\* LLMTranslator.cyrl_to_latn, keys in the order of the source
CyrKeys ==
    << "CYR_A", "CYR_BE", "CYR_VE", "CYR_GHE", "CYR_DE", "CYR_DJE", "CYR_IE",
       "CYR_ZHE", "CYR_ZE", "CYR_I", "CYR_JE", "CYR_KA", "CYR_EL", "CYR_LJE",
       "CYR_EM", "CYR_EN", "CYR_NJE", "CYR_O", "CYR_PE", "CYR_ER", "CYR_ES",
       "CYR_TE", "CYR_TSHE", "CYR_U", "CYR_EF", "CYR_HA", "CYR_TSE", "CYR_CHE",
       "CYR_DZHE", "CYR_SHA",
       "cyr_a", "cyr_be", "cyr_ve", "cyr_ghe", "cyr_de", "cyr_dje", "cyr_ie",
       "cyr_zhe", "cyr_ze", "cyr_i", "cyr_je", "cyr_ka", "cyr_el", "cyr_lje",
       "cyr_em", "cyr_en", "cyr_nje", "cyr_o", "cyr_pe", "cyr_er", "cyr_es",
       "cyr_te", "cyr_tshe", "cyr_u", "cyr_ef", "cyr_ha", "cyr_tse", "cyr_che",
       "cyr_dzhe", "cyr_sha" >>

CyrValues ==
    << <<"A">>, <<"B">>, <<"V">>, <<"G">>, <<"D">>, <<"LAT_D_STROKE">>, <<"E">>,
       <<"LAT_Z_CARON">>, <<"Z">>, <<"I">>, <<"J">>, <<"K">>, <<"L">>,
       <<"L", "j">>, <<"M">>, <<"N">>, <<"N", "j">>, <<"O">>, <<"P">>, <<"R">>,
       <<"S">>, <<"T">>, <<"LAT_C_ACUTE">>, <<"U">>, <<"F">>, <<"H">>, <<"C">>,
       <<"LAT_C_CARON">>, <<"D", "lat_z_caron">>, <<"LAT_S_CARON">>,
       <<"a">>, <<"b">>, <<"v">>, <<"g">>, <<"d">>, <<"lat_d_stroke">>, <<"e">>,
       <<"lat_z_caron">>, <<"z">>, <<"i">>, <<"j">>, <<"k">>, <<"l">>,
       <<"l", "j">>, <<"m">>, <<"n">>, <<"n", "j">>, <<"o">>, <<"p">>, <<"r">>,
       <<"s">>, <<"t">>, <<"lat_c_acute">>, <<"u">>, <<"f">>, <<"h">>, <<"c">>,
       <<"lat_c_caron">>, <<"d", "lat_z_caron">>, <<"cyr_sha">> >>

CyrKeySet == {CyrKeys[i] : i \in 1..Len(CyrKeys)}

cyrl_to_latn ==
    [c \in CyrKeySet |-> CyrValues[CHOOSE i \in 1..Len(CyrKeys) : CyrKeys[i] = c]]

\* LLMTranslator.convert_to_latin
RECURSIVE convert_to_latin(_)
convert_to_latin(text) ==
    IF text = <<>> THEN <<>>
    ELSE (IF Head(text) \in CyrKeySet THEN cyrl_to_latn[Head(text)] ELSE <<Head(text)>>)
         \o convert_to_latin(Tail(text))

\* LLMTranslator.enhance_translation (the two replace() calls map a
\* character to itself)
enhance_translation(original, translated) ==
    LET e1 == IF EndsWithNewline(original) /\ ~EndsWithNewline(translated)
              THEN translated \o <<"\n">>
              ELSE translated
    IN IF e1 # <<>> /\ IsLower(e1[1]) /\ original # <<>> /\ IsUpper(original[1])
       THEN <<Upper(e1[1])>> \o Tail(e1)
       ELSE e1

(* ---------------------------- documents -------------------------------- *)

\* An Element of xml.etree.ElementTree: tag, attrib (ordered name/value
\* pairs), the ordered list of its children, text and tail.  Elements are
\* numbered in document order; element 1 is the root.
NoAttr == <<>>

Skel(tags, parent, attrib) == [tags |-> tags, parent |-> parent, attrib |-> attrib]

FB == "{fb}FictionBook"
DESCRIPTION == "{fb}description"
TITLE_INFO == "{fb}title-info"
LANG == "{fb}lang"
BOOK_TITLE == "{fb}book-title"

IdAttr == << <<"id", "n1">>, <<"style", "x">> >>

\* the shapes of the input documents: <root><p/></root>, two sibling p,
\* a nested chain, a subtree followed by a sibling, and FictionBook
\* descriptions with a lang and/or a book-title
AllSkeletons ==
    { Skel(<<"root", "p">>, <<0, 1>>, <<NoAttr, IdAttr>>),
      Skel(<<"root", "p", "p">>, <<0, 1, 1>>, <<NoAttr, NoAttr, IdAttr>>),
      Skel(<<"root", "a", "b">>, <<0, 1, 2>>, <<IdAttr, NoAttr, NoAttr>>),
      Skel(<<"root", "a", "b", "p">>, <<0, 1, 2, 1>>, <<NoAttr, NoAttr, NoAttr, NoAttr>>),
      Skel(<<FB, DESCRIPTION, TITLE_INFO, LANG>>, <<0, 1, 2, 3>>,
           <<NoAttr, NoAttr, NoAttr, NoAttr>>),
      Skel(<<FB, DESCRIPTION, TITLE_INFO, BOOK_TITLE>>, <<0, 1, 2, 3>>,
           <<NoAttr, NoAttr, NoAttr, NoAttr>>),
      Skel(<<FB, DESCRIPTION, TITLE_INFO, LANG, BOOK_TITLE>>, <<0, 1, 2, 3, 3>>,
           <<NoAttr, NoAttr, NoAttr, NoAttr, NoAttr>>),
      Skel(<<FB, DESCRIPTION, TITLE_INFO, BOOK_TITLE, "p">>, <<0, 1, 2, 3, 1>>,
           <<NoAttr, NoAttr, NoAttr, NoAttr, IdAttr>>) }

Skeletons == {s \in AllSkeletons : Len(s.tags) <= MaxNodes}

\* the texts an input slot can hold: blank, two characters between
\* blanks, a three-letter word, the same word between whitespace
TxtBlank == <<" ">>
TxtShort == <<" ", ".", ".", " ">>
TxtWord == <<"CYR_SHA", "cyr_a", "cyr_be">>
TxtPadded == <<" ", "CYR_SHA", "cyr_a", "cyr_be", "\n">>

TextPool == {TxtBlank, TxtShort, TxtWord, TxtPadded}

RootId == 1

\* the ascending sequence of the members of a finite set of integers
RECURSIVE SortedSeq(_)
SortedSeq(S) ==
    IF S = {} THEN <<>>
    ELSE LET m == CHOOSE x \in S : \A y \in S : x <= y
         IN <<m>> \o SortedSeq(S \ {m})

\* the slots of a skeleton: every text, and the tail of every element but
\* the root (the parser leaves the root's tail None)
SlotsOf(s) ==
    {<<n, "text">> : n \in 1..Len(s.tags)} \cup {<<n, "tail">> : n \in 2..Len(s.tags)}

\* ET.parse(input_path): the tree of a skeleton whose slots in F hold t
ParsedTree(s, F, t) ==
    [n \in 1..Len(s.tags) |->
        [tag |-> s.tags[n],
         attrib |-> s.attrib[n],
         children |-> SortedSeq({c \in 1..Len(s.tags) : s.parent[c] = n}),
         text |-> IF <<n, "text">> \in F THEN t[<<n, "text">>] ELSE None,
         tail |-> IF <<n, "tail">> \in F THEN t[<<n, "tail">>] ELSE None]]

InputDocuments ==
    UNION { UNION { {ParsedTree(s, F, t) : t \in [F -> TextPool]}
                    : F \in {G \in SUBSET SlotsOf(s) : Cardinality(G) <= MaxFilled} }
            : s \in Skeletons }

\* Element.find(tag) on element n: the first child of n with that tag
FindChild(d, n, tag) ==
    LET m == {i \in 1..Len(d[n].children) : d[d[n].children[i]].tag = tag}
    IN IF m = {} THEN 0 ELSE d[n].children[CHOOSE i \in m : \A j \in m : i <= j]

\* the descendants of element n
RECURSIVE Descendants(_, _)
Descendants(d, n) ==
    LET cs == {d[n].children[i] : i \in 1..Len(d[n].children)}
    IN cs \cup UNION {Descendants(d, c) : c \in cs}

\* root.find('.//tag'): the first descendant of the root in document order
FindDescendant(d, tag) ==
    LET m == {n \in Descendants(d, RootId) : d[n].tag = tag}
    IN IF m = {} THEN 0 ELSE CHOOSE n \in m : \A k \in m : n <= k

(* ---------------------------- the backend ------------------------------ *)

\* what a chat-completion request can produce: an exception (network
\* error, HTTP status other than 200, a message without content) or the
\* content of the answer
RespEmpty == <<>>
RespWord == <<" ", "cyr_sha", "cyr_u", "cyr_em">>
RespOther == <<"CYR_U", "cyr_em", " ">>

Raised == [kind |-> "raise", content |-> <<>>]
Content(c) == [kind |-> "content", content |-> c]

BackendOutcomes == {Raised, Content(RespEmpty), Content(RespWord), Content(RespOther)}

(* ---------------------------- configuration ---------------------------- *)

\* (mutant) the dispatch has a branch for "custom" as well
SupportedProviders_WithCustom ==
    {"openai", "anthropic", "deepseek", "zhipu", "ollama", "custom"}

\* AdvancedLLMFB2Translator.__init__: the providers it dispatches on
SupportedProviders == {"openai", "anthropic", "deepseek", "zhipu", "ollama"}

\* the providers a command line or a config file names here; "custom" is
\* the value LLMConfig's comment lists and __init__ does not know
ProviderPool == {"openai", "ollama", "custom"}

\* LLMConfig.api_key: None, the empty string, a key
KeyNone == "<None>"
KeyEmpty == ""
KeyGiven == "sk-key"
Keys == {KeyNone, KeyEmpty, KeyGiven}

\* "config = None"
NoConfig == [provider |-> "<None>", api_key |-> KeyNone]

\* load_config_from_file: LLMConfig(**data), or None when the file cannot
\* be loaded
ConfigFiles == {NoConfig} \cup [provider : ProviderPool, api_key : Keys]

(* ---------------------------- codebase_hasher -------------------------- *)

\* A file name is a sequence of pieces: ".", "*", "~" and "#" are pieces of
\* their own and every other run of characters is one piece; a path is a
\* sequence of names.

\* "# Directories and files to include in hash calculation"
INCLUDE_DIRS ==
    { <<"cmd">>, <<"pkg">>, <<"internal">>, <<"scripts">>, <<"docs">>,
      <<"config">>, <<"web">>, <<"static">>, <<"templates">>,
      <<"go", ".", "mod">>, <<"go", ".", "sum">>, <<"Makefile">>,
      <<"Dockerfile">>, <<"docker-compose", ".", "yml">>, <<".", "github">>,
      <<"requirements", ".", "txt">>, <<"package", ".", "json">> }

\* "# File patterns to exclude from hash calculation"
EXCLUDE_PATTERNS ==
    { <<"*", ".", "log">>, <<"*", ".", "tmp">>, <<"*", ".", "bak">>,
      <<"*", ".", "swp">>, <<"*", ".", "swo">>, <<"*", "~">>,
      <<".", "DS_Store">>, <<"Thumbs", ".", "db">>, <<"*", ".", "pid">>,
      <<"*", ".", "lock">>, <<".", "#", "*">>, <<"#", "*", "#">>,
      <<"*", ".", "orig">>, <<"*", ".", "rej">>, <<".", "git">>,
      <<".", "svn">>, <<"node_modules">>, <<"__pycache__">>,
      <<".", "pytest_cache">>, <<".", "coverage">>,
      <<"coverage", ".", "xml">>, <<"*", ".", "pyc">>, <<"*", ".", "pyo">>,
      <<"*", ".", "pyd">>, <<".", "env">>, <<".", "env", ".", "*">>,
      <<"dist">>, <<"build">>, <<"target">>, <<"vendor">>,
      <<".", "terraform">>, <<"*", ".", "tfstate">>,
      <<"*", ".", "tfstate", ".", "*">>, <<".", "tox">>, <<".", "venv">>,
      <<"venv">>, <<"env">>, <<".", "idea">>, <<".", "vscode">>,
      <<"*", ".", "sublime-project">>, <<"*", ".", "sublime-workspace">> }

\* "# Include these files even if they match exclude patterns"
FORCE_INCLUDE ==
    { <<".", "gitignore">>, <<".", "gitattributes">>, <<"go", ".", "mod">>,
      <<"go", ".", "sum">> }

\* the names the file trees below are made of, in the order of Python's
\* string comparison, which Path comparison applies part by part
NamesInOrder ==
    << <<".", "codebase_hash">>,
       <<".", "github">>,
       <<".", "gitignore">>,
       <<".", "hidden">>,
       <<"README", ".", "md">>,
       <<"a", ".", "py">>,
       <<"c", ".", "txt">>,
       <<"ci", ".", "yml">>,
       <<"codebase_hash_report", ".", "json">>,
       <<"go", ".", "mod">>,
       <<"node_modules">>,
       <<"other">>,
       <<"pkg">>,
       <<"scripts">>,
       <<"vendor">>,
       <<"x", ".", "js">>,
       <<"x", ".", "log">> >>

\* the files a tree can hold, as relative paths (sequences of names)
FilePool ==
    { <<<<"scripts">>, <<"a", ".", "py">>>>,
      <<<<"scripts">>, <<"node_modules">>, <<"x", ".", "js">>>>,
      <<<<"node_modules">>, <<"x", ".", "js">>>>,
      <<<<".", "github">>, <<"ci", ".", "yml">>>>,
      <<<<"x", ".", "log">>>>,
      <<<<"README", ".", "md">>>>,
      <<<<".", "gitignore">>>>,
      <<<<"vendor">>, <<"go", ".", "mod">>>>,
      <<<<"other">>, <<"c", ".", "txt">>>>,
      <<<<"other">>, <<"scripts">>, <<"a", ".", "py">>>>,
      <<<<"scripts">>, <<".", "hidden">>, <<"a", ".", "py">>>>,
      <<<<"pkg">>, <<"vendor">>, <<"a", ".", "py">>>> }

\* base_path / 'codebase_hash_report.json'
ReportPath == <<<<"codebase_hash_report", ".", "json">>>>

\* Path(directory) / '.codebase_hash'
HashFilePath == <<<<".", "codebase_hash">>>>


\* the bytes an ordinary file can hold
FileContents == {<<"c1">>, <<"c2">>}

\* a directory tree: the files present, each with its bytes and whether it
\* can be read
NoFiles == [p \in {} |-> [content |-> <<>>, readable |-> TRUE]]

\* fnmatch of a name against a pattern: "*" stands for any run of characters
RECURSIVE FnMatch(_, _)
FnMatch(name, pattern) ==
    IF pattern = <<>> THEN name = <<>>
    ELSE IF pattern[1] = "*"
         THEN \/ FnMatch(name, Tail(pattern))
              \/ name # <<>> /\ FnMatch(Tail(name), pattern)
         ELSE name # <<>> /\ name[1] = pattern[1] /\ FnMatch(Tail(name), Tail(pattern))

\* Path.match(pattern) for a pattern of one component: the last component
\* of the path is matched (file_path and rel_path have the same one)
PathMatch(path, pattern) == FnMatch(path[Len(path)], pattern)

\* str.startswith('.')
Hidden(name) == name # <<>> /\ name[1] = "."

\* should_include_file(file_path, base_dir), on the relative path
should_include_file(rel_path) ==
    IF rel_path[Len(rel_path)] \in FORCE_INCLUDE THEN TRUE
    ELSE IF \E pattern \in EXCLUDE_PATTERNS : PathMatch(rel_path, pattern) THEN FALSE
    ELSE IF Hidden(rel_path[1]) THEN FALSE
    ELSE IF rel_path[1] \in INCLUDE_DIRS \/ Len(rel_path) = 1 THEN TRUE
    ELSE \E i \in 1..Len(rel_path) : rel_path[i] \in INCLUDE_DIRS

\* os.walk with "dirs[:] = [d for d in dirs if not d.startswith('.')]":
\* the files in no hidden directory are reached
Walked(rel_path) == \A i \in 1..(Len(rel_path) - 1) : ~Hidden(rel_path[i])

\* the paths a tree can hold: the pool and the two files the hasher writes
AllPaths == FilePool \cup {ReportPath, HashFilePath}

\* the paths the walk reaches and should_include_file accepts
Includable == {p \in AllPaths : Walked(p) /\ should_include_file(p)}

\* the files the loop appends to files_to_hash
Collected(tree) == DOMAIN tree \cap Includable

\* the orders in which the walk can enumerate a set of files
Enumerations(S) ==
    {e \in [1..Cardinality(S) -> S] : \A i, j \in 1..Cardinality(S) : i # j => e[i] # e[j]}

NameRank(name) == CHOOSE i \in 1..Len(NamesInOrder) : NamesInOrder[i] = name

\* Path.__lt__: the parts are compared in turn as strings, a proper prefix
\* comes first
RECURSIVE PathLess(_, _)
PathLess(p, q) ==
    IF q = <<>> THEN FALSE
    ELSE IF p = <<>> THEN TRUE
    ELSE IF p[1] = q[1] THEN PathLess(Tail(p), Tail(q))
    ELSE NameRank(p[1]) < NameRank(q[1])

RECURSIVE InsertPath(_, _)
InsertPath(sorted, p) ==
    IF sorted = <<>> THEN <<p>>
    ELSE IF PathLess(p, sorted[1]) THEN <<p>> \o sorted
    ELSE <<sorted[1]>> \o InsertPath(Tail(sorted), p)

\* (mutant) the files are hashed in the order the walk found them
SortFiles_AsEnumerated(files_to_hash) == files_to_hash

\* "files_to_hash.sort()"
RECURSIVE SortFiles(_)
SortFiles(files_to_hash) ==
    IF files_to_hash = <<>> THEN <<>>
    ELSE InsertPath(SortFiles(Tail(files_to_hash)), files_to_hash[1])

\* hashlib.sha256(...).hexdigest(), collision-free: the digest names its input
Digest(bytes) == <<"sha256", "(">> \o bytes \o <<")">>

\* calculate_file_hash(file_path): None for a file that cannot be read
NoDigest == <<>>
calculate_file_hash(tree, p) ==
    IF tree[p].readable THEN Digest(tree[p].content) ELSE NoDigest

\* str(rel_path): the names joined with "/"
RECURSIVE RelStr(_)
RelStr(rel_path) ==
    IF Len(rel_path) = 1 THEN rel_path[1]
    ELSE rel_path[1] \o <<"/">> \o RelStr(Tail(rel_path))

\* the inputs of total_hash.update, f"{rel_path}:{file_hash}" for every file
\* whose hash is not None, in the order of the list
RECURSIVE HashInputs(_, _)
HashInputs(tree, files_to_hash) ==
    IF files_to_hash = <<>> THEN <<>>
    ELSE (IF calculate_file_hash(tree, files_to_hash[1]) # NoDigest
          THEN RelStr(files_to_hash[1]) \o <<":">>
                 \o calculate_file_hash(tree, files_to_hash[1])
          ELSE <<>>) \o HashInputs(tree, Tail(files_to_hash))

\* total_hash.hexdigest() over the sorted list
TotalHash(tree, enumeration) == Digest(HashInputs(tree, SortFiles(enumeration)))

\* json.dump(hash_report, ..., sort_keys=True): the total hash and the
\* entries of file_hashes (the other fields do not depend on the tree)
HashReport(tree, enumeration) ==
    <<"total_hash", ":">> \o TotalHash(tree, enumeration)
       \o <<"file_hashes", ":">> \o HashInputs(tree, SortFiles(enumeration))

\* the tree after calculate_codebase_hash wrote its report
WithReport(tree, enumeration) ==
    [p \in DOMAIN tree \cup {ReportPath} |->
        IF p = ReportPath
        THEN [content |-> HashReport(tree, enumeration), readable |-> TRUE]
        ELSE tree[p]]

\* the tree after 'update' wrote the baseline
WithBaseline(tree, hash) ==
    [p \in DOMAIN tree \cup {HashFilePath} |->
        IF p = HashFilePath THEN [content |-> hash, readable |-> TRUE] ELSE tree[p]]

VARIABLES
    files,              \* the directory tree the hasher works on
    enumerated,         \* files_to_hash of the last walk, before the sort
    hash_value,         \* what the last calculate_codebase_hash returned
    hash_match,         \* report['hash_match'] of the last verify
    exit_status,        \* the exit status of the last command
    last_command,       \* sys.argv[1] of the last command
    commands            \* the commands run so far

hasher_vars == <<files, enumerated, hash_value, hash_match, exit_status, last_command,
                 commands>>

\* no command of the hasher has run
HasherIdle ==
    /\ files = NoFiles
    /\ enumerated = <<>>
    /\ hash_value = NoDigest
    /\ hash_match = "None"
    /\ exit_status = 0
    /\ last_command = "none"
    /\ commands = 0

(* ---------------------------- interpreter ------------------------------ *)

\* process_element_translations calls itself once per level of nesting and
\* the interpreter raises RecursionError beyond its recursion limit; a limit
\* no document of MaxNodes elements reaches
AmpleDepth == MaxNodes

(* ---------------------------- state ------------------------------------ *)

VARIABLES
    max_depth,          \* nested calls of process_element_translations the interpreter allows
    argv,               \* sys.argv of the program
    output_path,        \* the output_path given to process_fb2_structure
    config,             \* the LLMConfig main resolved
    runs,               \* runs of process_fb2_structure completed on the translator
    use_latin,          \* AdvancedLLMFB2Translator.use_latin
    deterministic,      \* the backend's answer is a function of (text, context)
    answered,           \* the answers a deterministic backend has given
    doc_nc,             \* the tree of the same run made without translation_cache
    parsed,             \* the tree as ET.parse returned it
    doc,                \* the tree, mutated in place
    pc,                 \* position in process_fb2_structure
    stack,              \* call stack of process_element_translations
    pending,            \* the translate_text call waiting for the backend
    translation_cache,  \* LLMTranslator.translation_cache
    translation_stats,  \* LLMTranslator.translation_stats
    calls,              \* the calls of translate_text, in order
    returns,            \* what each completed call of translate_text returned
    visits,             \* the elements process_element_translations entered
    requests,           \* the requests sent to the backend, in order
    output,             \* the tree written to output_path
    output_file,        \* the state of the file at output_path
    raised,             \* the exception that ended the run
    result              \* what process_fb2_structure returned

\* sys.argv[0]
Program == "llm_fb2_translator.py"
\* "output_file = None"
NoPath == <<>>

\* process_fb2_structure called by a program other than main, with an output
\* path of its choice
CalledDirectly ==
    /\ argv = <<Program>>
    /\ output_path = <<"out.b2">>

translator_vars ==
    <<max_depth, argv, output_path, config, runs, use_latin, deterministic, answered, doc_nc, parsed, doc,
      pc, stack, pending, translation_cache, translation_stats, calls, returns, visits,
      requests, output, output_file, raised, result>>

vars == <<translator_vars, hasher_vars>>

NoCall == [caller |-> "none", element |-> 0, text |-> <<>>, context |-> <<>>]
NoOutput == <<>>

Frame(e, c, at, i) == [element |-> e, context |-> c, at |-> at, i |-> i]

\* LLMTranslator.__init__, AdvancedLLMFB2Translator.__init__ and the
\* parse at the head of process_fb2_structure
Init ==
    /\ config = [provider |-> "openai", api_key |-> KeyGiven]
    /\ runs = 0
    /\ HasherIdle
    /\ CalledDirectly
    /\ max_depth = AmpleDepth
    /\ use_latin \in BOOLEAN
    /\ deterministic = FALSE
    /\ answered = {}
    /\ parsed \in InputDocuments
    /\ doc = parsed
    /\ doc_nc = parsed
    /\ pc = "parse"
    /\ stack = <<>>
    /\ pending = NoCall
    /\ translation_cache = {}
    /\ translation_stats = [total |-> 0, translated |-> 0, errors |-> 0, cached |-> 0]
    /\ calls = <<>>
    /\ returns = <<>>
    /\ visits = <<>>
    /\ requests = <<>>
    /\ output = NoOutput
    /\ output_file = "untouched"
    /\ raised = "none"
    /\ result = "running"

(* ---------------------------- writes ----------------------------------- *)

\* (mutant) the write builds a fresh element and loses the attributes
SetText_FreshElement(d, e, value) ==
    [d EXCEPT ![e].text = value, ![e].attrib = NoAttr]

\* element.text = value
SetText(d, e, value) == [d EXCEPT ![e].text = value]

\* element.tail = value
SetTail(d, e, value) == [d EXCEPT ![e].tail = value]

\* (mutant) the result is stored without the truthiness test
StoreText_Unchecked(d, e, ret) == SetText(d, e, ret)

\* "if translation: element.text = translation" (and the same statement
\* for translated_title)
StoreText(d, e, ret) == IF Truthy(ret) THEN SetText(d, e, ret) ELSE d

\* "if translation: element.tail = translation"
StoreTail(d, e, ret) == IF Truthy(ret) THEN SetTail(d, e, ret) ELSE d

Bump(stats, counter) == [stats EXCEPT ![counter] = @ + 1]

(* ---------------------------- translate_text --------------------------- *)

\* (mutant) the lookup never finds the key
CacheKeys_AlwaysMiss == {}

\* "cache_key in self.translation_cache"
CacheKeys == {en.key : en \in translation_cache}
CacheGet(key) == (CHOOSE en \in translation_cache : en.key = key).value
\* (mutant) the translation is returned without being stored
CachePut_NotStored(key, value) == translation_cache

\* "self.translation_cache[cache_key] = enhanced"
CachePut(key, value) ==
    {en \in translation_cache : en.key # key} \cup {[key |-> key, value |-> value]}

\* self.process_element_translations(root): the call enters the root
\* with the default context ""
StartWalk ==
    /\ pc' = "walk"
    /\ stack' = <<Frame(RootId, <<>>, "text", 1)>>
    /\ visits' = <<RootId>>

\* the caller's statements after translate_text returned ret:
\* "if translated_title: book_title.text = translated_title" and the start
\* of the walk; "if translation: element.text = translation"; "if
\* translation: element.tail = translation" and the return of the frame.
\* ret_nc is what the call returns in the run without the cache, stored
\* the same way in that run's tree dnc.
Resume(d, dnc, caller, e, ret, ret_nc) ==
    /\ returns' = Append(returns, ret)
    /\ CASE caller = "title" ->
            /\ doc' = StoreText(d, e, ret)
            /\ doc_nc' = StoreText(dnc, e, ret_nc)
            /\ StartWalk
      [] caller = "text" ->
            /\ doc' = StoreText(d, e, ret)
            /\ doc_nc' = StoreText(dnc, e, ret_nc)
            /\ pc' = pc
            /\ stack' = [stack EXCEPT ![Len(stack)].at = "children"]
            /\ visits' = visits
      [] caller = "tail" ->
            /\ doc' = StoreTail(d, e, ret)
            /\ doc_nc' = StoreTail(dnc, e, ret_nc)
            /\ pc' = IF Len(stack) = 1 THEN "write" ELSE "walk"
            /\ stack' = SubSeq(stack, 1, Len(stack) - 1)
            /\ visits' = visits

\* (mutant) the cache is keyed by the text alone
CacheKey_TextOnly(text, context) == <<text, <<>>>>

\* cache_key = (text, context)
CacheKey(text, context) == <<text, context>>

\* the try block of translate_text for a backend outcome: None after an
\* exception, else the stripped and enhanced answer
Translated(text, o) ==
    IF o.kind = "raise" THEN None
    ELSE enhance_translation(text, Strip(o.content))

\* the outcomes the backend can give to a request: any, but a
\* deterministic backend repeats the answer it gave to the same request
OutcomesFor(text, context) ==
    IF deterministic /\ \E a \in answered : a.request = <<text, context>>
    THEN {a.outcome : a \in {x \in answered : x.request = <<text, context>>}}
    ELSE BackendOutcomes

Answer(text, context, o) ==
    IF deterministic
    THEN answered \cup {[request |-> <<text, context>>, outcome |-> o]}
    ELSE answered

\* translate_text(text, context) up to the request: the early return for
\* blank text, the cache lookup, else the request is sent.  On a cache
\* hit the run without the cache asks the backend.
TranslateText(d, dnc, caller, e, text, context, stats) ==
    /\ calls' = Append(calls, [text |-> text, context |-> context,
                               element |-> e, caller |-> caller])
    /\ UNCHANGED <<output, output_file, raised, result>>
    /\ IF ~Truthy(text) \/ Strip(text) = <<>>
       THEN /\ Resume(d, dnc, caller, e, text, text)
            /\ translation_stats' = stats
            /\ UNCHANGED <<answered, pending, translation_cache, requests>>
       ELSE IF CacheKey(text, context) \in CacheKeys
       THEN /\ translation_stats' = Bump(stats, "cached")
            /\ UNCHANGED <<pending, translation_cache, requests>>
            /\ IF deterministic
               THEN \E o \in OutcomesFor(text, context) :
                      /\ answered' = Answer(text, context, o)
                      /\ Resume(d, dnc, caller, e, CacheGet(CacheKey(text, context)),
                                Translated(text, o))
               ELSE /\ answered' = answered
                    /\ Resume(d, dnc, caller, e, CacheGet(CacheKey(text, context)),
                              CacheGet(CacheKey(text, context)))
       ELSE /\ pending' = [caller |-> caller, element |-> e,
                           text |-> text, context |-> context]
            /\ requests' = Append(requests, <<text, context>>)
            /\ translation_stats' = stats
            /\ doc' = d
            /\ doc_nc' = dnc
            /\ UNCHANGED <<answered, pc, stack, translation_cache, returns, visits>>

\* the rest of translate_text once the backend answered, and the caller's
\* statements after it
BackendReply ==
    /\ pending # NoCall
    /\ \E o \in OutcomesFor(pending.text, pending.context) :
         /\ answered' = Answer(pending.text, pending.context, o)
         /\ IF o.kind = "raise"
            THEN /\ translation_stats' = Bump(translation_stats, "errors")
                 /\ translation_cache' = translation_cache
                 /\ Resume(doc, doc_nc, pending.caller, pending.element, None, None)
            ELSE LET enhanced == Translated(pending.text, o)
                 IN /\ translation_cache' =
                           CachePut(CacheKey(pending.text, pending.context), enhanced)
                    /\ translation_stats' = Bump(translation_stats, "translated")
                    /\ Resume(doc, doc_nc, pending.caller, pending.element,
                              enhanced, enhanced)
    /\ pending' = NoCall
    /\ UNCHANGED <<hasher_vars, max_depth, argv, output_path, config, runs, use_latin, deterministic, parsed, calls, requests, output, output_file, raised, result>>

(* ---------------------------- process_fb2_structure -------------------- *)

\* (mutant) the length test is made on the unstripped value
Qualifies_Unstripped(value) == Truthy(value) /\ Strip(value) # <<>> /\ Len(value) > 2

\* the slot qualifies: "if element.text and element.text.strip():" and
\* "if len(text) > 2:"
Qualifies(value) == Truthy(value) /\ Strip(value) # <<>> /\ Len(Strip(value)) > 2

\* update_document_metadata: the title-info, lang and book-title elements
\* the chain of find() calls yields (0 when a find returns None)
TitleInfoOf(d) ==
    LET description == FindDescendant(d, DESCRIPTION)
    IN IF description # 0 THEN FindChild(d, description, TITLE_INFO) ELSE 0

LangOf(d) == IF TitleInfoOf(d) # 0 THEN FindChild(d, TitleInfoOf(d), LANG) ELSE 0

BookTitleOf(d) == IF TitleInfoOf(d) # 0 THEN FindChild(d, TitleInfoOf(d), BOOK_TITLE) ELSE 0

\* (mutant) a three-letter language code
TargetLang_ThreeLetter == <<"s", "r", "p">>

\* update_document_metadata: "lang.text = 'sr'"
TargetLang == <<"s", "r">>

\* update_document_metadata(root)
UpdateDocumentMetadata ==
    /\ pc = "metadata" /\ pending = NoCall
    /\ LET lang == LangOf(doc)
           book_title == BookTitleOf(doc)
           d1 == IF lang # 0 THEN SetText(doc, lang, TargetLang) ELSE doc
           dnc1 == IF lang # 0 THEN SetText(doc_nc, lang, TargetLang) ELSE doc_nc
       IN IF book_title # 0 /\ Truthy(d1[book_title].text)
          THEN TranslateText(d1, dnc1, "title", book_title, d1[book_title].text,
                             <<"book-title">>, translation_stats)
          ELSE /\ doc' = d1
               /\ doc_nc' = dnc1
               /\ StartWalk
               /\ UNCHANGED <<answered, pending, translation_cache, translation_stats,
                              calls, returns, requests, output, output_file, raised, result>>
    /\ UNCHANGED <<hasher_vars, max_depth, argv, output_path, config, runs, use_latin, deterministic, parsed>>

Top == stack[Len(stack)]

\* (mutant) the stored value is submitted as it is
UnitText_Raw(value) == value

\* process_element_translations: "text = element.text.strip()" and
\* "text = element.tail.strip()", the text that is submitted
UnitText(value) == Strip(value)

\* process_element_translations: "# Process element text"
ProcessElementText ==
    /\ pc = "walk" /\ pending = NoCall /\ stack # <<>> /\ Top.at = "text"
    /\ LET element == Top.element
       IN IF Qualifies(doc[element].text)
          THEN TranslateText(doc, doc_nc, "text", element, UnitText(doc[element].text),
                             Top.context, Bump(translation_stats, "total"))
          ELSE /\ stack' = [stack EXCEPT ![Len(stack)].at = "children"]
               /\ UNCHANGED <<doc, doc_nc, answered, pc, pending, translation_cache, translation_stats,
                              calls, returns, visits, requests, output, output_file, raised, result>>
    /\ UNCHANGED <<hasher_vars, max_depth, argv, output_path, config, runs, use_latin, deterministic, parsed>>

\* (mutant) the separator is written before the first segment too
ChildContext_AlwaysSeparator(context, tag) == context \o <<"/", tag>>

\* f"{context}/{child.tag}" if context else child.tag
ChildContext(context, tag) ==
    IF context # <<>> THEN context \o <<"/", tag>> ELSE <<tag>>

\* (mutant) the tail is submitted under the element's own context
TailContext_NoMarker(context) == context

\* f"{context}/tail"
TailContext(context) == context \o <<"/", "tail">>

\* (mutant) the loop takes the children last to first
ProcessChildElements_Reversed ==
    /\ pc = "walk" /\ pending = NoCall /\ stack # <<>> /\ Top.at = "children"
    /\ LET children == doc[Top.element].children
       IN IF Top.i <= Len(children)
          THEN LET child == children[Len(children) + 1 - Top.i]
               IN IF Len(stack) >= max_depth
                  THEN /\ stack' = <<>>
                       /\ visits' = visits
                       /\ pc' = "done"
                       /\ raised' = "RecursionError"
                       /\ result' = "False"
                  ELSE /\ stack' = Append([stack EXCEPT ![Len(stack)].i = @ + 1],
                                          Frame(child, ChildContext(Top.context, doc[child].tag),
                                                "text", 1))
                       /\ visits' = Append(visits, child)
                       /\ UNCHANGED <<pc, raised, result>>
          ELSE /\ stack' = [stack EXCEPT ![Len(stack)].at = "tail"]
               /\ visits' = visits
               /\ UNCHANGED <<pc, raised, result>>
    /\ UNCHANGED <<hasher_vars, max_depth, argv, output_path, config, runs, use_latin, deterministic, parsed, doc, doc_nc, answered, pending,
                   translation_cache, translation_stats, calls, returns, requests, output,
                   output_file>>

\* process_element_translations: "# Process child elements", one turn of
\* the loop: the recursive call for the next child (a RecursionError when
\* the nesting is beyond what the interpreter allows, which
\* process_fb2_structure's handler turns into False), or the end of the loop
ProcessChildElements ==
    /\ pc = "walk" /\ pending = NoCall /\ stack # <<>> /\ Top.at = "children"
    /\ LET children == doc[Top.element].children
       IN IF Top.i <= Len(children)
          THEN LET child == children[Top.i]
               IN IF Len(stack) >= max_depth
                  THEN /\ stack' = <<>>
                       /\ visits' = visits
                       /\ pc' = "done"
                       /\ raised' = "RecursionError"
                       /\ result' = "False"
                  ELSE /\ stack' = Append([stack EXCEPT ![Len(stack)].i = @ + 1],
                                          Frame(child, ChildContext(Top.context, doc[child].tag),
                                                "text", 1))
                       /\ visits' = Append(visits, child)
                       /\ UNCHANGED <<pc, raised, result>>
          ELSE /\ stack' = [stack EXCEPT ![Len(stack)].at = "tail"]
               /\ visits' = visits
               /\ UNCHANGED <<pc, raised, result>>
    /\ UNCHANGED <<hasher_vars, max_depth, argv, output_path, config, runs, use_latin, deterministic, parsed, doc, doc_nc, answered, pending,
                   translation_cache, translation_stats, calls, returns, requests, output,
                   output_file>>

\* process_element_translations: "# Process tail text" and the return
ProcessTailText ==
    /\ pc = "walk" /\ pending = NoCall /\ stack # <<>> /\ Top.at = "tail"
    /\ LET element == Top.element
       IN IF Qualifies(doc[element].tail)
          THEN TranslateText(doc, doc_nc, "tail", element, UnitText(doc[element].tail),
                             TailContext(Top.context), Bump(translation_stats, "total"))
          ELSE /\ stack' = SubSeq(stack, 1, Len(stack) - 1)
               /\ pc' = IF Len(stack) = 1 THEN "write" ELSE "walk"
               /\ UNCHANGED <<doc, doc_nc, answered, pending, translation_cache, translation_stats,
                              calls, returns, visits, requests, output, output_file, raised, result>>
    /\ UNCHANGED <<hasher_vars, max_depth, argv, output_path, config, runs, use_latin, deterministic, parsed>>

\* convert_tree_to_latin(root)
convert_tree_to_latin(d) ==
    [n \in DOMAIN d |->
        [d[n] EXCEPT
            !.text = IF Truthy(d[n].text) THEN convert_to_latin(d[n].text) ELSE d[n].text,
            !.tail = IF Truthy(d[n].tail) THEN convert_to_latin(d[n].tail) ELSE d[n].tail]]

\* (mutant) the conversion is made whatever use_latin says
TreeToWrite_AlwaysLatin(d) == convert_tree_to_latin(d)

\* write_enhanced_xml: "if self.use_latin: self.convert_tree_to_latin(...)"
TreeToWrite(d) == IF use_latin THEN convert_tree_to_latin(d) ELSE d

\* how an attempt to write the file can end: written; an exception before
\* the file is opened (tostring, minidom.parseString, open); an exception
\* after open() truncated it (write)
WriteOutcomes == {"written", "failed_before_open", "failed_after_open"}

\* the file at output_path after an attempt
FileAfter(outcome) ==
    CASE outcome = "written" -> "complete"
      [] outcome = "failed_before_open" -> output_file
      [] outcome = "failed_after_open" -> "partial"

\* the complete tree at output_path after an attempt, if any
OutputAfter(outcome, d) ==
    CASE outcome = "written" -> d
      [] outcome = "failed_before_open" -> output
      [] outcome = "failed_after_open" -> NoOutput

\* write_enhanced_xml(tree, output_path): the conversion and the
\* pretty-printed write; an exception leads to the fallback
WriteEnhancedXml ==
    /\ pc = "write"
    /\ doc' = TreeToWrite(doc)
    /\ doc_nc' = TreeToWrite(doc_nc)
    /\ \E outcome \in WriteOutcomes :
         /\ output' = OutputAfter(outcome, doc')
         /\ output_file' = FileAfter(outcome)
         /\ pc' = IF outcome = "written" THEN "stats" ELSE "fallback"
    /\ UNCHANGED <<hasher_vars, max_depth, argv, output_path, config, runs, use_latin, deterministic, answered, parsed, stack, pending,
                   translation_cache, translation_stats, calls, returns, visits,
                   requests, raised, result>>

\* write_enhanced_xml: "# Fallback to standard XML writing"; when
\* tree.write raises too the exception reaches process_fb2_structure's
\* handler, which returns False
FallbackWrite ==
    /\ pc = "fallback"
    /\ \E outcome \in WriteOutcomes :
         /\ output' = OutputAfter(outcome, doc)
         /\ output_file' = FileAfter(outcome)
         /\ IF outcome = "written"
            THEN pc' = "stats" /\ UNCHANGED <<raised, result>>
            ELSE pc' = "done" /\ raised' = "WriteError" /\ result' = "False"
    /\ UNCHANGED <<hasher_vars, max_depth, argv, output_path, config, runs, use_latin, deterministic, answered, parsed, doc, doc_nc, stack,
                   pending, translation_cache, translation_stats, calls, returns,
                   visits, requests>>

\* self.translator.print_translation_stats(): no class defines the method,
\* the AttributeError is caught by process_fb2_structure's handler
PrintTranslationStats ==
    /\ pc = "stats"
    /\ pc' = "done"
    /\ raised' = "AttributeError"
    /\ result' = "False"
    /\ UNCHANGED <<hasher_vars, max_depth, argv, output_path, config, runs, use_latin, deterministic, answered, parsed, doc, doc_nc, stack,
                   pending, translation_cache, translation_stats, calls, returns,
                   visits, requests, output, output_file>>

\* (mutant) a tree that failed to parse is processed all the same
ParseInput_Swallowed ==
    /\ pc = "parse"
    /\ \E ok \in BOOLEAN :
         /\ pc' = "metadata"
         /\ raised' = IF ok THEN raised ELSE "ParseError"
         /\ result' = result
    /\ UNCHANGED <<hasher_vars, max_depth, argv, output_path, config, runs, use_latin, deterministic, answered, parsed, doc, doc_nc, stack,
                   pending, translation_cache, translation_stats, calls, returns,
                   visits, requests, output, output_file>>

\* process_fb2_structure: "tree = ET.parse(input_path)"; a file that is
\* missing, unreadable or not well-formed raises, and the handler returns
\* False
ParseInput ==
    /\ pc = "parse"
    /\ \E ok \in BOOLEAN :
         IF ok
         THEN pc' = "metadata" /\ UNCHANGED <<raised, result>>
         ELSE pc' = "done" /\ raised' = "ParseError" /\ result' = "False"
    /\ UNCHANGED <<hasher_vars, max_depth, argv, output_path, config, runs, use_latin, deterministic, answered, parsed, doc, doc_nc, stack,
                   pending, translation_cache, translation_stats, calls, returns,
                   visits, requests, output, output_file>>

Next ==
    \/ ParseInput
    \/ UpdateDocumentMetadata
    \/ ProcessElementText
    \/ ProcessChildElements
    \/ ProcessTailText
    \/ BackendReply
    \/ WriteEnhancedXml
    \/ FallbackWrite
    \/ PrintTranslationStats

Spec == Init /\ [][Next]_vars

\* the same runs against a backend whose answer is a function of the
\* request
InitDeterministic ==
    /\ config = [provider |-> "openai", api_key |-> KeyGiven]
    /\ runs = 0
    /\ HasherIdle
    /\ CalledDirectly
    /\ max_depth = AmpleDepth
    /\ use_latin \in BOOLEAN
    /\ deterministic = TRUE
    /\ answered = {}
    /\ parsed \in InputDocuments
    /\ doc = parsed
    /\ doc_nc = parsed
    /\ pc = "parse"
    /\ stack = <<>>
    /\ pending = NoCall
    /\ translation_cache = {}
    /\ translation_stats = [total |-> 0, translated |-> 0, errors |-> 0, cached |-> 0]
    /\ calls = <<>>
    /\ returns = <<>>
    /\ visits = <<>>
    /\ requests = <<>>
    /\ output = NoOutput
    /\ output_file = "untouched"
    /\ raised = "none"
    /\ result = "running"

SpecDeterministic == InitDeterministic /\ [][Next]_vars

(* ---------------------------- main ------------------------------------- *)

\* main, "# Get API key from environment or prompt": the key from the
\* environment, else the stripped answer to the prompt, which is asked only
\* for a provider other than ollama and an input file that exists
ResolveApiKey(provider, env_key, answer, input_exists) ==
    IF env_key \notin {KeyNone, KeyEmpty} THEN env_key
    ELSE IF provider # "ollama" /\ input_exists THEN answer
    ELSE env_key

\* main, "# Load configuration": the config file when it loads, else an
\* LLMConfig built from the command line; the LLMConfig is always built, so
\* create_config_from_env is never reached
ResolveConfig(from_file, provider, env_key, answer, input_exists) ==
    IF from_file # NoConfig THEN from_file
    ELSE [provider |-> provider,
          api_key |-> ResolveApiKey(provider, env_key, answer, input_exists)]

\* the command lines given to the program
ArgvPool ==
    { <<Program>>,
      <<Program, "--create-config">>,
      <<Program, "--create-config", "config.json">>,
      <<Program, "book.fb2">>,
      <<Program, "book.fb2", "out.b2">>,
      <<Program, "book.fb2", "--latin">>,
      <<Program, "book.fb2", "out.b2", "--latin">>,
      <<Program, "book.fb2", "--latin", "out.b2">>,
      <<Program, "book.fb2", "--provider">>,
      <<Program, "book.fb2", "--config", "config.json">>,
      <<Program, "book.fb2", "--model", "gpt-4">>,
      <<Program, "book.fb2", "--latin", "--provider", "ollama">>,
      <<Program, "book.fb2", "out.b2", "--provider", "ollama">> }
      \cup { <<Program, "book.fb2", "--provider", p>> : p \in ProviderPool }

\* arg.startswith('--'), on the arguments of the pool
IsOption(arg) ==
    arg \in {"--latin", "--provider", "--model", "--config", "--create-config"}

\* "option in sys.argv"
InArgv(args, option) == \E i \in 1..Len(args) : args[i] = option

\* sys.argv.index(option), counted from 1
IndexOf(args, option) ==
    CHOOSE i \in 1..Len(args) :
        args[i] = option /\ \A j \in 1..(i - 1) : args[j] # option

\* "if idx + 1 < len(sys.argv)": the option is followed by an argument
HasValue(args, option) == InArgv(args, option) /\ IndexOf(args, option) < Len(args)

\* the argument after the option, or the default
OptionValue(args, option, default) ==
    IF HasValue(args, option) THEN args[IndexOf(args, option) + 1] ELSE default

\* Path(input_file).stem, on the input files of the pool
Stem(input_file) == IF input_file = "book.fb2" THEN "book" ELSE input_file

\* main, "# Find output file (first non-option argument after input)" and
\* the generated name when there is none; a generated name is the stem
\* followed by the suffix
OutputFile(args, latin) ==
    LET positional == {i \in 3..Len(args) : ~IsOption(args[i])}
    IN  IF positional # {}
        THEN <<args[CHOOSE i \in positional : \A j \in positional : i <= j]>>
        ELSE <<Stem(args[2]), IF latin THEN "_sr_latin.b2" ELSE "_sr_llm.b2">>

\* main, up to the construction of the translator
Main ==
    /\ pc = "main"
    /\ \E input_exists \in BOOLEAN, from_file \in ConfigFiles,
          env_key \in {KeyNone, KeyGiven}, answer \in {KeyEmpty, KeyGiven} :
         IF Len(argv) < 2
         THEN /\ pc' = "done" /\ result' = "False"
              /\ UNCHANGED <<config, use_latin, output_path>>
         ELSE IF InArgv(argv, "--create-config")
         THEN /\ pc' = "done"
              /\ result' = IF HasValue(argv, "--create-config") THEN "True" ELSE "False"
              /\ UNCHANGED <<config, use_latin, output_path>>
         ELSE IF ~input_exists /\ ~\E i \in 3..Len(argv) : IsOption(argv[i])
         THEN /\ pc' = "done" /\ result' = "False"
              /\ UNCHANGED <<config, use_latin, output_path>>
         ELSE /\ use_latin' = InArgv(argv, "--latin")
              /\ output_path' = OutputFile(argv, InArgv(argv, "--latin"))
              /\ config' = ResolveConfig(IF HasValue(argv, "--config") THEN from_file ELSE NoConfig,
                                         OptionValue(argv, "--provider", "openai"),
                                         env_key, answer, input_exists)
              /\ IF input_exists
                 THEN pc' = "construct" /\ result' = result
                 ELSE pc' = "done" /\ result' = "False"
    /\ UNCHANGED <<hasher_vars, max_depth, argv, runs, deterministic, answered, doc_nc, parsed, doc,
                   stack, pending, translation_cache, translation_stats, calls,
                   returns, visits, requests, output, output_file, raised>>

\* AdvancedLLMFB2Translator.__init__ and the provider translator's
\* __init__: an unsupported provider raises ValueError; the client library
\* accepts the configuration or raises, and main catches neither
Construct ==
    /\ pc = "construct"
    /\ IF config.provider \notin SupportedProviders
       THEN pc' = "done" /\ raised' = "ValueError" /\ result' = "raised"
       ELSE \E accepted \in BOOLEAN :
              IF accepted
              THEN pc' = "parse" /\ UNCHANGED <<raised, result>>
              ELSE pc' = "done" /\ raised' = "ClientError" /\ result' = "raised"
    /\ translation_cache' = {}
    /\ translation_stats' = [total |-> 0, translated |-> 0, errors |-> 0, cached |-> 0]
    /\ UNCHANGED <<hasher_vars, max_depth, argv, output_path, config, runs, use_latin, deterministic, answered, doc_nc, parsed,
                   doc, stack, pending, calls, returns, visits, requests, output,
                   output_file>>

NextMain ==
    \/ Main
    \/ Construct
    \/ Next

\* the documents given to main
MainNodes == 3
MainDocuments == {d \in InputDocuments : Cardinality(DOMAIN d) <= MainNodes}

\* the program started from the command line
InitMain ==
    /\ config = NoConfig
    /\ runs = 0
    /\ HasherIdle
    /\ argv \in ArgvPool
    /\ output_path = NoPath
    /\ max_depth = AmpleDepth
    /\ use_latin = FALSE
    /\ deterministic = FALSE
    /\ answered = {}
    /\ parsed \in MainDocuments
    /\ doc = parsed
    /\ doc_nc = parsed
    /\ pc = "main"
    /\ stack = <<>>
    /\ pending = NoCall
    /\ translation_cache = {}
    /\ translation_stats = [total |-> 0, translated |-> 0, errors |-> 0, cached |-> 0]
    /\ calls = <<>>
    /\ returns = <<>>
    /\ visits = <<>>
    /\ requests = <<>>
    /\ output = NoOutput
    /\ output_file = "untouched"
    /\ raised = "none"
    /\ result = "running"

SpecMain == InitMain /\ [][NextMain]_vars

(* ---------------------------- repeated runs ---------------------------- *)

\* the number of runs of process_fb2_structure made on one translator
MaxRuns == 2

\* process_fb2_structure is called again on the same
\* AdvancedLLMFB2Translator, for the same input file: the tree is parsed
\* anew, self.translator keeps its translation_cache and translation_stats,
\* which only LLMTranslator.__init__ assigns
RunAgain ==
    /\ pc = "done"
    /\ result \in {"True", "False"}
    /\ runs + 1 < MaxRuns
    /\ runs' = runs + 1
    /\ doc' = parsed
    /\ doc_nc' = parsed
    /\ pc' = "parse"
    /\ stack' = <<>>
    /\ pending' = NoCall
    /\ calls' = <<>>
    /\ returns' = <<>>
    /\ visits' = <<>>
    /\ requests' = <<>>
    /\ raised' = "none"
    /\ result' = "running"
    /\ UNCHANGED <<hasher_vars, max_depth, argv, output_path, config, use_latin, deterministic, answered, parsed,
                   translation_cache, translation_stats, output, output_file>>

NextRuns ==
    \/ Next
    \/ RunAgain

\* the documents processed more than once
RunsNodes == 3
RunsDocuments == {d \in InputDocuments : Cardinality(DOMAIN d) <= RunsNodes}

\* a constructed translator about to make its first run
InitRuns ==
    /\ config = [provider |-> "openai", api_key |-> KeyGiven]
    /\ runs = 0
    /\ HasherIdle
    /\ CalledDirectly
    /\ max_depth = AmpleDepth
    /\ use_latin \in BOOLEAN
    /\ deterministic = FALSE
    /\ answered = {}
    /\ parsed \in RunsDocuments
    /\ doc = parsed
    /\ doc_nc = parsed
    /\ pc = "parse"
    /\ stack = <<>>
    /\ pending = NoCall
    /\ translation_cache = {}
    /\ translation_stats = [total |-> 0, translated |-> 0, errors |-> 0, cached |-> 0]
    /\ calls = <<>>
    /\ returns = <<>>
    /\ visits = <<>>
    /\ requests = <<>>
    /\ output = NoOutput
    /\ output_file = "untouched"
    /\ raised = "none"
    /\ result = "running"

SpecRuns == InitRuns /\ [][NextRuns]_vars

(* ---------------------------- deep trees ------------------------------- *)

\* the recursion limit, in nested calls of the walk, of an interpreter that
\* the documents below go beyond; CPython's is 1000 frames unless set
DeepLimit == 2

\* the documents walked under that limit
DeepNodes == 3
DeepDocuments == {d \in InputDocuments : Cardinality(DOMAIN d) <= DeepNodes}

\* a constructed translator about to run in such an interpreter
InitDeep ==
    /\ config = [provider |-> "openai", api_key |-> KeyGiven]
    /\ runs = 0
    /\ HasherIdle
    /\ CalledDirectly
    /\ max_depth = DeepLimit
    /\ use_latin \in BOOLEAN
    /\ deterministic = FALSE
    /\ answered = {}
    /\ parsed \in DeepDocuments
    /\ doc = parsed
    /\ doc_nc = parsed
    /\ pc = "parse"
    /\ stack = <<>>
    /\ pending = NoCall
    /\ translation_cache = {}
    /\ translation_stats = [total |-> 0, translated |-> 0, errors |-> 0, cached |-> 0]
    /\ calls = <<>>
    /\ returns = <<>>
    /\ visits = <<>>
    /\ requests = <<>>
    /\ output = NoOutput
    /\ output_file = "untouched"
    /\ raised = "none"
    /\ result = "running"

SpecDeep == InitDeep /\ [][Next]_vars

(* ---------------------------- codebase_hasher: commands ---------------- *)

\* the commands run on one tree
MaxCommands == 3

\* the files of a tree at the start
MaxFiles == 2

\* a file at the start: readable with either content, or unreadable
FileStates ==
    [content : FileContents, readable : {TRUE}]
       \cup {[content |-> <<"c1">>, readable |-> FALSE]}

Trees ==
    UNION { [S -> FileStates]
              : S \in {T \in SUBSET FilePool : Cardinality(T) <= MaxFiles} }

\* verify_codebase_consistency: previous_hash, the stripped content of
\* .codebase_hash, None (empty here, as falsy) when the file does not exist
PreviousHash(tree) ==
    IF HashFilePath \in DOMAIN tree THEN Strip(tree[HashFilePath].content) ELSE NoDigest

\* "current_hash == previous_hash if previous_hash else None"
HashMatch(current_hash, previous_hash) ==
    IF previous_hash # NoDigest
    THEN (IF current_hash = previous_hash THEN "True" ELSE "False")
    ELSE "None"

\* main, command 'calculate': calculate_codebase_hash walks the tree in some
\* order, hashes the sorted files, writes the report and returns the hash
HasherCalculate ==
    /\ commands < MaxCommands
    /\ \E enumeration \in Enumerations(Collected(files)) :
         /\ enumerated' = enumeration
         /\ hash_value' = TotalHash(files, enumeration)
         /\ files' = WithReport(files, enumeration)
    /\ exit_status' = 0
    /\ last_command' = "calculate"
    /\ commands' = commands + 1
    /\ UNCHANGED <<hash_match, translator_vars>>

\* main, command 'verify': the hash is calculated (and the report written),
\* compared with the baseline, and a mismatch exits with status 1
HasherVerify ==
    /\ commands < MaxCommands
    /\ \E enumeration \in Enumerations(Collected(files)) :
         /\ enumerated' = enumeration
         /\ hash_value' = TotalHash(files, enumeration)
         /\ files' = WithReport(files, enumeration)
         /\ hash_match' = HashMatch(TotalHash(files, enumeration),
                                    PreviousHash(WithReport(files, enumeration)))
    /\ exit_status' = IF hash_match' = "False" THEN 1 ELSE 0
    /\ last_command' = "verify"
    /\ commands' = commands + 1
    /\ UNCHANGED translator_vars

\* main, command 'update': the hash is calculated (and the report written)
\* and saved as the baseline
HasherUpdate ==
    /\ commands < MaxCommands
    /\ \E enumeration \in Enumerations(Collected(files)) :
         /\ enumerated' = enumeration
         /\ hash_value' = TotalHash(files, enumeration)
         /\ files' = WithBaseline(WithReport(files, enumeration),
                                  TotalHash(files, enumeration))
    /\ exit_status' = 0
    /\ last_command' = "update"
    /\ commands' = commands + 1
    /\ UNCHANGED <<hash_match, translator_vars>>

\* main without a command or with an unknown one: exit status 1
HasherUsage ==
    /\ commands < MaxCommands
    /\ exit_status' = 1
    /\ last_command' = "unknown"
    /\ commands' = commands + 1
    /\ UNCHANGED <<files, enumerated, hash_value, hash_match, translator_vars>>

NextHasher ==
    \/ HasherCalculate
    \/ HasherVerify
    \/ HasherUpdate
    \/ HasherUsage

\* no translator is at work
TranslatorIdle ==
    /\ max_depth = AmpleDepth
    /\ CalledDirectly
    /\ config = NoConfig
    /\ runs = 0
    /\ use_latin = FALSE
    /\ deterministic = FALSE
    /\ answered = {}
    /\ parsed = ParsedTree(Skel(<<"root", "p">>, <<0, 1>>, <<NoAttr, IdAttr>>), {}, <<>>)
    /\ doc = parsed
    /\ doc_nc = parsed
    /\ pc = "idle"
    /\ stack = <<>>
    /\ pending = NoCall
    /\ translation_cache = {}
    /\ translation_stats = [total |-> 0, translated |-> 0, errors |-> 0, cached |-> 0]
    /\ calls = <<>>
    /\ returns = <<>>
    /\ visits = <<>>
    /\ requests = <<>>
    /\ output = NoOutput
    /\ output_file = "untouched"
    /\ raised = "none"
    /\ result = "running"

\* the hasher about to be run on a tree
InitHasher ==
    /\ TranslatorIdle
    /\ files \in Trees
    /\ enumerated = <<>>
    /\ hash_value = NoDigest
    /\ hash_match = "None"
    /\ exit_status = 0
    /\ last_command = "none"
    /\ commands = 0

SpecHasher == InitHasher /\ [][NextHasher]_vars

(* ---------------------------- properties ------------------------------- *)

Elements == DOMAIN parsed

SlotNames == {"text", "tail"}

SlotValue(d, n, slot) == IF slot = "text" THEN d[n].text ELSE d[n].tail

\* the slot a call of translate_text was made for
CallSlot(call) == IF call.caller = "tail" THEN "tail" ELSE "text"

\* the calls made for slot (n, slot)
CallsFor(n, slot) ==
    {k \in 1..Len(calls) : calls[k].element = n /\ CallSlot(calls[k]) = slot}

\* the calls made by process_element_translations
WalkCalls == {k \in 1..Len(calls) : calls[k].caller # "title"}

\* the whitespace-stripped length of a slot is <= 2 (None and empty count as 0)
StrippedLenAtMost2(value) == value = None \/ Len(Strip(value)) <= 2

SameStructure(d, e) ==
    /\ DOMAIN d = DOMAIN e
    /\ \A n \in DOMAIN d :
         /\ d[n].tag = e[n].tag
         /\ d[n].attrib = e[n].attrib
         /\ d[n].children = e[n].children

\* C1: through the whole run (metadata update, walk, conversion, write) the
\* set of elements and each element's tag, attributes (names, values, order)
\* and child order are those of the parsed document, in the tree and in
\* what is written: only text and tail are ever written.
C1_StructurePreserved ==
    /\ SameStructure(doc, parsed)
    /\ output # NoOutput => SameStructure(output, parsed)

\* C1 witness: the run is over, an element with attributes had its text
\* replaced, and the tree was written.
C1_Witness ==
    /\ pc = "done"
    /\ output # NoOutput
    /\ \E n \in Elements : parsed[n].attrib # NoAttr /\ doc[n].text # parsed[n].text

\* the step completes a call of translate_text made by the walk, and the
\* call signalled failure (returned None or an empty string)
WalkCallFailed ==
    /\ Len(returns') = Len(returns) + 1
    /\ calls'[Len(returns')].caller # "title"
    /\ ~Truthy(returns'[Len(returns')])

\* C2: a step of the walk in which translate_text signals failure leaves
\* every slot of the tree as it was, and no step of the run turns a
\* non-empty slot into an empty string or None.
C2_FailureKeepsSlot ==
    [][ /\ WalkCallFailed => doc' = doc
        /\ \A n \in Elements : \A slot \in SlotNames :
              Truthy(SlotValue(doc, n, slot)) => Truthy(SlotValue(doc', n, slot))
      ]_vars

\* C2 witness: the walk is over, a call of the walk returned None, another
\* one an empty string, and both slots hold their parsed text.
C2_Witness ==
    /\ pc = "write"
    /\ \E j, k \in WalkCalls :
         /\ j <= Len(returns) /\ k <= Len(returns)
         /\ returns[j] = None /\ returns[k] = <<>>
         /\ \A i \in {j, k} :
              SlotValue(doc, calls[i].element, CallSlot(calls[i]))
                = SlotValue(parsed, calls[i].element, CallSlot(calls[i]))

\* C3: during the walk a slot whose stripped length is <= 2 (None, empty
\* and blank slots included) is not passed to translate_text and keeps
\* its value, whatever the backend answers.
C3_ShortSlotsSkipped ==
    [][ (pc = "walk" /\ pc' \in {"walk", "write"}) =>
           \A n \in Elements : \A slot \in SlotNames :
              StrippedLenAtMost2(SlotValue(doc, n, slot)) =>
                 /\ SlotValue(doc', n, slot) = SlotValue(doc, n, slot)
                 /\ \A k \in (Len(calls) + 1)..Len(calls') :
                       ~(calls'[k].element = n /\ CallSlot(calls'[k]) = slot)
      ]_vars

\* C3 witness: the walk is over, it passed a two-character text between
\* blanks untouched, and a later slot was translated.
C3_Witness ==
    /\ pc = "write"
    /\ \E n \in Elements :
         /\ parsed[n].text = TxtShort /\ doc[n].text = TxtShort /\ CallsFor(n, "text") = {}
         /\ \E k \in WalkCalls :
              calls[k].element > n /\ k <= Len(returns) /\ Truthy(returns[k])

\* C4: every slot is passed to translate_text at most once, and by the end
\* of the walk every slot whose parsed text has stripped length > 2 (the
\* book-title slot included, the language-code field apart) exactly once.
C4_SubmittedExactlyOnce ==
    \A n \in Elements : \A slot \in SlotNames :
       /\ Cardinality(CallsFor(n, slot)) <= 1
       /\ (pc = "write" /\ Qualifies(SlotValue(parsed, n, slot))
              /\ ~(n = LangOf(parsed) /\ slot = "text"))
            => Cardinality(CallsFor(n, slot)) = 1

\* document order of the slots: an element's text, the slots of its
\* children in child order, the element's tail
RECURSIVE SlotOrder(_, _)
RECURSIVE SlotOrderOfChildren(_, _, _)
SlotOrder(d, n) ==
    <<<<n, "text">>>> \o SlotOrderOfChildren(d, d[n].children, 1) \o <<<<n, "tail">>>>
SlotOrderOfChildren(d, cs, i) ==
    IF i > Len(cs) THEN <<>>
    ELSE SlotOrder(d, cs[i]) \o SlotOrderOfChildren(d, cs, i + 1)

\* the position of a slot in document order
Rank(n, slot) ==
    LET o == SlotOrder(parsed, RootId)
    IN CHOOSE i \in 1..Len(o) : o[i] = <<n, slot>>

\* the elements in document order (an element before its children)
RECURSIVE PreOrder(_, _)
RECURSIVE PreOrderOfChildren(_, _, _)
PreOrder(d, n) == <<n>> \o PreOrderOfChildren(d, d[n].children, 1)
PreOrderOfChildren(d, cs, i) ==
    IF i > Len(cs) THEN <<>>
    ELSE PreOrder(d, cs[i]) \o PreOrderOfChildren(d, cs, i + 1)

IsPrefix(a, b) == Len(a) <= Len(b) /\ SubSeq(b, 1, Len(a)) = a

\* C5: the calls of the walk come in document order of their slots (text,
\* then the children's subtrees in child order, then tail); the elements
\* are entered in pre-order, each once, all of them by the end of the
\* walk; and a call is issued only when every earlier call has returned
\* and its outcome has been stored or dropped.
C5_Order ==
    /\ \A j, k \in WalkCalls :
          j < k => Rank(calls[j].element, CallSlot(calls[j]))
                     < Rank(calls[k].element, CallSlot(calls[k]))
    /\ IsPrefix(visits, PreOrder(parsed, RootId))
    /\ pc \in {"write", "fallback", "stats", "done"} /\ raised # "ParseError" =>
          visits = PreOrder(parsed, RootId)
    /\ Len(returns) = Len(calls) - (IF pending = NoCall THEN 0 ELSE 1)
    /\ \A k \in WalkCalls \cap (1..Len(returns)) :
          Truthy(returns[k]) /\ pc \in {"walk", "write"} =>
             SlotValue(doc, calls[k].element, CallSlot(calls[k])) = returns[k]

\* C5 witness: in a tree with a nested child, a text, a tail below it and
\* a later tail have been submitted in turn and the walk is over.
C5_Witness ==
    /\ pc = "write"
    /\ \E j, k \in WalkCalls :
         /\ j < k
         /\ calls[j].caller = "tail"
         /\ calls[k].caller = "text"
         /\ calls[k].element > calls[j].element
         /\ Truthy(returns[j]) /\ Truthy(returns[k])

\* the parent of element n (0 for the root)
ParentOf(d, n) ==
    LET ps == {m \in DOMAIN d : \E i \in 1..Len(d[m].children) : d[m].children[i] = n}
    IN IF ps = {} THEN 0 ELSE CHOOSE m \in ps : TRUE

\* the tags on the path from the root (inclusive) down to element n
RECURSIVE PathTags(_, _)
PathTags(d, n) ==
    IF ParentOf(d, n) = 0 THEN <<d[n].tag>>
    ELSE Append(PathTags(d, ParentOf(d, n)), d[n].tag)

\* the segments joined with "/", no separator before the first
RECURSIVE JoinPath(_)
JoinPath(segments) ==
    IF segments = <<>> THEN <<>>
    ELSE IF Len(segments) = 1 THEN segments
    ELSE <<segments[1], "/">> \o JoinPath(Tail(segments))

BeginsWithSeparator(context) == context # <<>> /\ context[1] = "/"

\* C6 as stated: a body text is submitted with the joined tags of the path
\* from the root, inclusive, to its element, a tail with that string
\* followed by "/tail", and no context begins with the separator.
C6_ContextFromRoot ==
    \A k \in WalkCalls :
       /\ calls[k].context =
             IF calls[k].caller = "tail"
             THEN JoinPath(PathTags(parsed, calls[k].element)) \o <<"/", "tail">>
             ELSE JoinPath(PathTags(parsed, calls[k].element))
       /\ ~BeginsWithSeparator(calls[k].context)

\* C6 amended: the path starts below the root, so the root's own body
\* context is the empty string and the root's tag is in no context; a tail
\* is submitted with its element's context followed by "/tail"; no context
\* of a submitted unit begins with the separator.
C6_ContextBelowRoot ==
    \A k \in WalkCalls :
       /\ calls[k].context =
             IF calls[k].caller = "tail"
             THEN JoinPath(Tail(PathTags(parsed, calls[k].element))) \o <<"/", "tail">>
             ELSE JoinPath(Tail(PathTags(parsed, calls[k].element)))
       /\ ~BeginsWithSeparator(calls[k].context)

\* C6 witness: the walk is over; a text two levels below the root went out
\* with a two-segment context and the tail of its parent with "a/tail".
C6_Witness ==
    /\ pc = "write"
    /\ \E j, k \in WalkCalls :
         /\ calls[j].caller = "text" /\ calls[k].caller = "tail"
         /\ Len(PathTags(parsed, calls[j].element)) = 3
         /\ calls[j].context = <<"a", "/", "b">>
         /\ calls[k].context = <<"a", "/", "tail">>

\* the document <root><p>A</p>B</root>, A and B with stripped length > 2
C7_Document ==
    /\ DOMAIN parsed = 1..2
    /\ parsed[1].tag = "root" /\ parsed[2].tag = "p"
    /\ parsed[1].children = <<2>>
    /\ ~Qualifies(parsed[1].text)
    /\ Qualifies(parsed[2].text) /\ Qualifies(parsed[2].tail)

C7_TwoUnits ==
    /\ Len(calls) = 2
    /\ calls[1].element = 2 /\ calls[1].caller = "text"
    /\ calls[1].text = Strip(parsed[2].text)
    /\ calls[2].element = 2 /\ calls[2].caller = "tail"
    /\ calls[2].text = Strip(parsed[2].tail)

\* C7 as stated: for <root><p>A</p>B</root> exactly two units go out, A then
\* B, with the contexts "root/p" and "root/tail".
C7_ParentTailContext ==
    (C7_Document /\ pc = "write") =>
        /\ C7_TwoUnits
        /\ calls[1].context = <<"root", "/", "p">>
        /\ calls[2].context = <<"root", "/", "tail">>

\* C7 amended: for <root><p>A</p>B</root> exactly two units go out, A then
\* B, with the contexts "p" and "p/tail": B is the tail of p and goes out
\* under p's context, which does not name the root.
C7_OwnTailContext ==
    (C7_Document /\ pc = "write") =>
        /\ C7_TwoUnits
        /\ calls[1].context = <<"p">>
        /\ calls[2].context = <<"p", "/", "tail">>

\* C7 witness: the walk of <root><p>A</p>B</root> is over, both units
\* answered.
C7_Witness ==
    /\ C7_Document /\ pc = "write"
    /\ Len(returns) = 2 /\ Truthy(returns[1]) /\ Truthy(returns[2])

\* the slot received a non-failure translation
ReceivedTranslation(n, slot) ==
    \E k \in CallsFor(n, slot) : k <= Len(returns) /\ Truthy(returns[k])

IsLangField(n, slot) == n = LangOf(parsed) /\ slot = "text"

\* C8 as stated: whatever use_latin is, the written tree differs from the
\* parsed one only in qualifying slots that received a non-failure
\* translation, and in the language-code field.
C8_OnlyTranslatedSlotsDiffer ==
    output # NoOutput =>
       \A n \in Elements : \A slot \in SlotNames :
          (~IsLangField(n, slot) /\ SlotValue(output, n, slot) # SlotValue(parsed, n, slot))
             => Qualifies(SlotValue(parsed, n, slot)) /\ ReceivedTranslation(n, slot)

\* C8 amended: with use_latin off, the written tree differs from the parsed
\* one only in slots that received a non-failure translation (qualifying
\* slots, and the book-title slot whatever its length) and in the
\* language-code field; every other slot holds its parsed value.
C8_OnlyTranslatedSlotsDifferCyrillic ==
    (~use_latin /\ output # NoOutput) =>
       \A n \in Elements : \A slot \in SlotNames :
          (~IsLangField(n, slot) /\ SlotValue(output, n, slot) # SlotValue(parsed, n, slot))
             => /\ ReceivedTranslation(n, slot)
                /\ Qualifies(SlotValue(parsed, n, slot))
                     \/ (n = BookTitleOf(parsed) /\ slot = "text")

\* C8 witness: written without conversion; one slot failed and holds its
\* parsed text, another was translated and holds the translation.
C8_Witness ==
    /\ ~use_latin /\ output # NoOutput
    /\ \E j, k \in WalkCalls :
         /\ ~Truthy(returns[j])
         /\ SlotValue(output, calls[j].element, CallSlot(calls[j]))
              = SlotValue(parsed, calls[j].element, CallSlot(calls[j]))
         /\ Truthy(returns[k])
         /\ SlotValue(output, calls[k].element, CallSlot(calls[k])) = returns[k]
         /\ returns[k] # SlotValue(parsed, calls[k].element, CallSlot(calls[k]))

\* the step completes a call of translate_text that signalled failure
CallFailed ==
    /\ Len(returns') = Len(returns) + 1
    /\ ~Truthy(returns'[Len(returns')])

\* C9: a step in which translate_text signals failure (exception or empty
\* answer) adds exactly 1 to 'errors' and nothing to 'translated' and
\* 'cached'.
C9_FailureCountsAsError ==
    [][ CallFailed =>
          /\ translation_stats'.errors = translation_stats.errors + 1
          /\ translation_stats'.translated = translation_stats.translated
          /\ translation_stats'.cached = translation_stats.cached
      ]_vars

SameKey(j, k) == calls[j].text = calls[k].text /\ calls[j].context = calls[k].context

\* call j is the first call for its (text, context) pair
FirstForKey(j) == \A i \in 1..(j - 1) : ~SameKey(i, j)

\* the completed calls that came after a completed request for the same pair
RepeatCalls ==
    {k \in 1..Len(returns) :
        \E j \in 1..(k - 1) :
           SameKey(j, k) /\ Strip(calls[j].text) # <<>> /\ returns[j] # None}

\* C10: when a (stripped text, context) pair occurs in two slots and the
\* first request for it succeeded, the backend got one request for the
\* pair, the later call returned the same value and was counted in
\* 'cached', and each of the two slots holds that value.
C10_RepeatServedFromCache ==
    /\ translation_stats.cached = Cardinality(RepeatCalls)
    /\ \A j, k \in WalkCalls :
          (j < k /\ k <= Len(returns) /\ SameKey(j, k) /\ FirstForKey(j)
                 /\ Truthy(returns[j]))
            => /\ Cardinality({r \in 1..Len(requests) :
                                  requests[r] = <<calls[j].text, calls[j].context>>}) = 1
               /\ returns[k] = returns[j]
               /\ k \in RepeatCalls
               /\ \A i \in {j, k} :
                     /\ pc \in {"walk", "write"} =>
                           SlotValue(doc, calls[i].element, CallSlot(calls[i])) = returns[j]
                     /\ (output # NoOutput /\ ~use_latin) =>
                           SlotValue(output, calls[i].element, CallSlot(calls[i])) = returns[j]
               /\ output # NoOutput =>
                     SlotValue(output, calls[j].element, CallSlot(calls[j]))
                       = SlotValue(output, calls[k].element, CallSlot(calls[k]))

\* C10 witness: two sibling slots with different stored values and the same
\* stripped text were submitted under one context, the second was served
\* from the cache, and the tree was written.
C10_Witness ==
    /\ output # NoOutput
    /\ translation_stats.cached = 1
    /\ Len(requests) = 1
    /\ \E j, k \in WalkCalls :
         /\ j < k /\ SameKey(j, k) /\ Truthy(returns[j])
         /\ calls[j].element # calls[k].element
         /\ SlotValue(parsed, calls[j].element, CallSlot(calls[j]))
              # SlotValue(parsed, calls[k].element, CallSlot(calls[k]))

\* the calls of translate_text that go to the backend when there is no
\* cache: every call but the early return for blank text
UncachedRequests == {k \in 1..Len(calls) : Strip(calls[k].text) # <<>>}

\* C11: against a backend whose answer is a function of (text, context),
\* the tree of the run with translation_cache equals, at every step and
\* when written, the tree of the same run without it; the cached run
\* sends no more requests than the other.
C11_CacheTransparent ==
    deterministic =>
       /\ doc = doc_nc
       /\ output # NoOutput => output = doc_nc
       /\ Len(requests) <= Cardinality(UncachedRequests)

\* C11 witness: a deterministic backend, a repeated unit served from the
\* cache with a translation, fewer requests than units, and the tree
\* written.
C11_Witness ==
    /\ deterministic /\ output # NoOutput
    /\ translation_stats.cached >= 1
    /\ Len(requests) < Cardinality(UncachedRequests)
    /\ \E k \in RepeatCalls : Truthy(returns[k])
    /\ doc # parsed

\* C12: at the end of every run the file at the output path is either a
\* complete serialization of the fully walked document or was never touched,
\* and nothing is written to it before the walk has finished.  Violated: a
\* pretty-printed write that fails after open() truncated the file, followed
\* by a fallback that fails, ends the run with a partial file.
C12_CompleteOrUntouched ==
    /\ pc \in {"parse", "metadata", "walk", "write"} => output_file = "untouched"
    /\ pc = "done" =>
         /\ output_file \in {"complete", "untouched"}
         /\ output_file = "complete" => output = doc

\* C13: when the pretty-printed write fails the fallback write is attempted
\* once; a fallback that succeeds lets write_enhanced_xml return normally
\* with the complete file in place, and a fallback that fails propagates its
\* error and leaves no partial file at the output path.  Violated: a
\* fallback (or the write before it) that fails after the file was opened
\* leaves the truncated file behind.
C13_FallbackOnceNoPartial ==
    [][ /\ (pc = "write" /\ pc' # "stats") => pc' = "fallback"
        /\ pc = "fallback" =>
             \/ pc' = "stats" /\ output_file' = "complete" /\ output' = doc
                  /\ raised' = "none"
             \/ pc' = "done" /\ raised' = "WriteError" /\ result' = "False"
                  /\ output_file' # "partial" ]_vars

\* C14: when parsing the input raises, the run makes no translate_text
\* call, sends nothing to the backend, leaves the output path untouched and
\* returns False.
C14_ParseFailureStopsRun ==
    raised = "ParseError" =>
        /\ pc = "done"
        /\ result = "False"
        /\ calls = <<>> /\ requests = <<>> /\ pending = NoCall
        /\ visits = <<>>
        /\ output_file = "untouched" /\ output = NoOutput

\* C14 witness: the parse of a document with a qualifying slot failed and
\* the run is over.
C14_Witness ==
    /\ raised = "ParseError"
    /\ pc = "done"
    /\ \E n \in Elements : Qualifies(parsed[n].text)

C16_NoCredentialAborts ==
    (config # NoConfig /\ config.provider # "ollama"
        /\ config.api_key \in {KeyNone, KeyEmpty}) =>
        /\ pc \in {"construct", "done"}
        /\ calls = <<>> /\ requests = <<>> /\ visits = <<>>
        /\ output_file = "untouched"

\* the metadata step has been made in this run
MetadataUpdated ==
    \/ pc = "metadata" /\ pending # NoCall
    \/ pc \in {"walk", "write", "fallback", "stats"}
    \/ pc = "done" /\ raised \notin {"ParseError", "ValueError", "ClientError"}
                   /\ visits # <<>>

\* C17: a description/title-info/lang element has its text changed by the
\* metadata step alone, to 'sr', before any call of the walk; its text slot
\* is never submitted to translate_text; and it reads 'sr' from then on,
\* in the written document too.
C17_LangSetOnce ==
    [][ LET lang == LangOf(parsed)
        IN lang # 0 =>
             /\ doc'[lang].text # doc[lang].text =>
                   /\ pc = "metadata" /\ calls = <<>>
                   /\ doc'[lang].text = <<"s", "r">>
             /\ MetadataUpdated' => doc'[lang].text = <<"s", "r">>
             /\ \A k \in 1..Len(calls') :
                   ~(calls'[k].element = lang /\ calls'[k].caller = "text")
             /\ output' # NoOutput => output'[lang].text = <<"s", "r">> ]_vars

\* C17 witness: a document whose lang element held a qualifying text has
\* been walked, with calls made, and written.
C17_Witness ==
    /\ LangOf(parsed) # 0
    /\ Qualifies(parsed[LangOf(parsed)].text)
    /\ WalkCalls # {}
    /\ output # NoOutput
    /\ output[LangOf(parsed)].text = <<"s", "r">>

\* the (text, context) pairs of the calls made so far, in order
SubmittedPairs == [k \in 1..Len(calls) |-> <<calls[k].text, calls[k].context>>]

\* the tree as the walk finds it when every call of translate_text failed:
\* the parsed tree with the language code set
TreeOfFailingRun ==
    IF LangOf(parsed) # 0 THEN SetText(parsed, LangOf(parsed), TargetLang) ELSE parsed

\* the pair the walk submits for a slot of that tree
PairOfFailingRun(n, slot) ==
    <<Strip(SlotValue(TreeOfFailingRun, n, slot)),
      IF slot = "tail"
      THEN JoinPath(Tail(PathTags(parsed, n))) \o <<"/", "tail">>
      ELSE JoinPath(Tail(PathTags(parsed, n)))>>

RECURSIVE WalkPairsOfFailingRun(_, _)
WalkPairsOfFailingRun(order, i) ==
    IF i > Len(order) THEN <<>>
    ELSE (IF Qualifies(SlotValue(TreeOfFailingRun, order[i][1], order[i][2]))
          THEN <<PairOfFailingRun(order[i][1], order[i][2])>>
          ELSE <<>>) \o WalkPairsOfFailingRun(order, i + 1)

\* the pairs submitted, in order, by the run on the same input in which the
\* backend fails on every unit
PairsOfFailingRun ==
    (IF BookTitleOf(parsed) # 0 /\ Truthy(parsed[BookTitleOf(parsed)].text)
     THEN <<<<parsed[BookTitleOf(parsed)].text, <<"book-title">>>>>>
     ELSE <<>>) \o WalkPairsOfFailingRun(SlotOrder(parsed, RootId), 1)

\* C18: the sequence of (text, context) pairs a run submits is the one any
\* other run on the same document submits, whatever the backend answers;
\* here against the run in which every unit fails.  Violated: the walk
\* submits the book-title slot a second time (C4), with the text the
\* metadata step stored there, which is the backend's answer.
C18_SameSubmissionsAcrossRuns ==
    /\ IsPrefix(SubmittedPairs, PairsOfFailingRun)
    /\ pc = "write" => SubmittedPairs = PairsOfFailingRun

\* the step makes a call of translate_text
CallMade == Len(calls') = Len(calls) + 1

\* the stored value, just before the call, of the slot the new call is for
StoredValueOfNewCall ==
    SlotValue(doc, calls'[Len(calls')].element, CallSlot(calls'[Len(calls')]))

\* C19 as stated: the text of every call is the stored value of its slot,
\* leading and trailing whitespace included.
C19_StoredValueSubmitted ==
    [][ CallMade => calls'[Len(calls')].text = StoredValueOfNewCall ]_vars

\* C19 amended: the walk submits the stored value with leading and trailing
\* whitespace removed; the metadata step alone submits the stored value of
\* book-title as it is.
C19_StrippedValueSubmitted ==
    [][ CallMade =>
          calls'[Len(calls')].text =
             IF calls'[Len(calls')].caller = "title"
             THEN StoredValueOfNewCall
             ELSE Strip(StoredValueOfNewCall) ]_vars

\* C19 witness: the walk made a call for a slot stored with leading and
\* trailing whitespace, and the text of the call is not the stored value.
C19_Witness ==
    \E k \in WalkCalls :
       /\ SlotValue(parsed, calls[k].element, CallSlot(calls[k])) = TxtPadded
       /\ calls[k].text = Strip(TxtPadded)
       /\ calls[k].text # TxtPadded

\* C20: the counters reflect the current run only: a run starts with all
\* four at zero and 'total' counts the units the walk of this run
\* submitted.  Violated: only LLMTranslator.__init__ sets the counters, so
\* a second run on the same translator starts from the first run's values.
C20_CountersOfThisRun ==
    /\ pc = "parse" =>
          translation_stats = [total |-> 0, translated |-> 0, errors |-> 0, cached |-> 0]
    /\ translation_stats.total = Cardinality(WalkCalls)
    /\ translation_stats.translated + translation_stats.errors
          + translation_stats.cached <= Len(calls)

\* C21: the walk visits every element of the tree whatever the nesting
\* depth: once the walk is left, every element has been entered.
\* Violated: the walk is a recursion one Python frame deep per level of
\* nesting, and a tree nested beyond the interpreter's recursion limit ends
\* it with RecursionError before the deeper elements are entered.
C21_WalkCompletes ==
    (pc \in {"write", "fallback", "stats", "done"} /\ raised # "ParseError") =>
        visits = PreOrder(parsed, RootId)

\* the step runs a command that calculates the codebase hash
HashCalculated ==
    /\ commands' = commands + 1
    /\ last_command' \in {"calculate", "verify", "update"}

\* C22: on a tree nobody else changes, every calculation returns the hash
\* the one before returned, and 'verify' right after 'update' reports
\* hash_match = true and exits with status 0.  Violated: every calculation
\* writes codebase_hash_report.json into the tree, a root file that the
\* next calculation includes, so the next hash differs.
C22_HashRepeatable ==
    [][ /\ (HashCalculated /\ hash_value # NoDigest) => hash_value' = hash_value
        /\ (HashCalculated /\ last_command = "update" /\ last_command' = "verify") =>
              (hash_match' = "True" /\ exit_status' = 0) ]_vars

\* the sorted sequence of the members of a set of paths
RECURSIVE PathsInOrder(_)
PathsInOrder(S) ==
    IF S = {} THEN <<>>
    ELSE LET least == CHOOSE p \in S : \A q \in S : q = p \/ PathLess(p, q)
         IN <<least>> \o PathsInOrder(S \ {least})

\* the elements of a sequence
Range(seq) == {seq[i] : i \in 1..Len(seq)}

\* C23: the hash a calculation returns is the digest of the entries of the
\* collected files taken in the order of their paths, whatever order the
\* walk enumerated them in: it depends on the set of included files, their
\* paths and contents alone.
C23_OrderIndependent ==
    [][ HashCalculated =>
          /\ Range(enumerated') = Collected(files)
          /\ hash_value' = Digest(HashInputs(files, PathsInOrder(Collected(files)))) ]_vars

\* C23 witness: the walk enumerated two readable files against the order of
\* their paths and the hash was returned.
C23_Witness ==
    /\ commands >= 1
    /\ Len(enumerated) >= 2
    /\ PathLess(enumerated[2], enumerated[1])
    /\ files[enumerated[1]].readable /\ files[enumerated[2]].readable
    /\ hash_value # NoDigest

\* C24: process_fb2_structure returns True whenever parsing, the metadata
\* update, the walk and the write all completed, and returns False only when
\* one of them raised; so the run succeeds exactly when the output file was
\* written.  Violated: after a successful write the call of
\* print_translation_stats, which no class defines, raises AttributeError
\* and the handler returns False with the complete file in place.
C24_TrueIffWritten ==
    (pc = "done" /\ result \in {"True", "False"}) =>
        /\ result = "True" <=> output_file = "complete"
        /\ result = "False" => raised \in {"ParseError", "RecursionError", "WriteError"}

\* the paths of the pool with a directory component that matches an
\* exclude pattern
UnderExcludedDirectory ==
    {p \in AllPaths : \E i \in 1..(Len(p) - 1) :
                        \E pattern \in EXCLUDE_PATTERNS : FnMatch(p[i], pattern)}

\* C25: no file inside a directory whose name is an exclude pattern is
\* collected for the hash, unless its own name is in FORCE_INCLUDE.
\* Violated: only the last component of a path is matched against the
\* patterns, so scripts/node_modules/x.js is collected and hashed.
C25_ExcludedDirectoriesSkipped ==
    \A i \in 1..Len(enumerated) :
        enumerated[i] \in UnderExcludedDirectory =>
            enumerated[i][Len(enumerated[i])] \in FORCE_INCLUDE

\* the paths of the pool under a top-level entry of INCLUDE_DIRS that match
\* no exclude pattern
UnderIncludeDir ==
    {p \in AllPaths : /\ Len(p) > 1
                      /\ p[1] \in INCLUDE_DIRS
                      /\ \A pattern \in EXCLUDE_PATTERNS : ~PathMatch(p, pattern)}

\* C26: after a calculation every readable file under a top-level entry of
\* INCLUDE_DIRS ('.github' included) that matches no exclude pattern is in
\* files_to_hash.  Violated: the walk prunes every directory whose name
\* starts with '.', and should_include_file rejects a hidden first part, so
\* .github/ci.yml is never collected.
C26_IncludeDirsCollected ==
    hash_value # NoDigest =>
        \A p \in DOMAIN files \cap UnderIncludeDir :
            files[p].readable => p \in Range(enumerated)

\* every argument after the input file is an option or the value that
\* follows --provider, --model or --config
NoPositionalOutput(args) ==
    \A i \in 3..Len(args) :
        IsOption(args[i]) \/ args[i - 1] \in {"--provider", "--model", "--config"}

\* C27: when the command line holds no positional output argument the
\* output path is the input's stem followed by _sr_latin.b2 with --latin and
\* by _sr_llm.b2 without, and the config file is never written by the
\* translation.  Violated: the first argument after the input that does not
\* start with "--" is taken as the output file, so the value of --provider,
\* --model or --config becomes the output path.
C27_GeneratedOutputPath ==
    (output_path # NoPath /\ Len(argv) >= 2 /\ NoPositionalOutput(argv)) =>
        /\ output_path = <<Stem(argv[2]),
                           IF InArgv(argv, "--latin") THEN "_sr_latin.b2" ELSE "_sr_llm.b2">>
        /\ output_file # "untouched" => output_path # <<"config.json">>

\* the text holds a character that is a key of cyrl_to_latn
HasCyrKey(text) == \E i \in 1..Len(text) : text[i] \in CyrKeySet

\* C28: with use_latin set, no body or tail slot of the written tree holds
\* a character that is a key of cyrl_to_latn.  Violated: the table maps the
\* small letter sha to itself, so a translation that holds it keeps it.
C28_NoTableKeyLeft ==
    (use_latin /\ output # NoOutput) =>
        \A n \in DOMAIN output :
            /\ Truthy(output[n].text) => ~HasCyrKey(output[n].text)
            /\ Truthy(output[n].tail) => ~HasCyrKey(output[n].tail)

\* C29: at the end of a run on a freshly constructed translator
\* total = translated + errors + cached.  Violated: the translate_text call
\* that update_document_metadata makes for the book title is counted in an
\* outcome counter and not in total.
C29_TotalIsSumOfOutcomes ==
    (pc = "done" /\ runs = 0) =>
        translation_stats.total =
            translation_stats.translated + translation_stats.errors
                + translation_stats.cached

\* the completed calls of translate_text that got past the test for blank
\* text
NonBlankCalls ==
    {k \in 1..Len(returns) : Truthy(calls[k].text) /\ Strip(calls[k].text) # <<>>}

\* those that returned a translation, and those that returned None
CompletedCalls == {k \in NonBlankCalls : returns[k] # None}
RaisedCalls == {k \in NonBlankCalls : returns[k] = None}

KeyOfCall(k) == CacheKey(calls[k].text, calls[k].context)

\* the requests sent to the backend for the pair of call k
RequestsFor(k) ==
    {r \in 1..Len(requests) : requests[r] = <<calls[k].text, calls[k].context>>}

\* C30: translation_cache holds an entry for exactly the (text, context)
\* pairs for which a request completed without exception, one entry a pair;
\* 'translated' is the number of entries; every call that returned a
\* translation for a pair returned the value stored for it, so a stored
\* value never changed; and a pair got one request for each call that
\* raised, one for the call that filled the cache and one for the call that
\* is waiting for its answer, so a pair whose request raised is asked again.
C30_CacheHoldsCompletedRequests ==
    /\ {en.key : en \in translation_cache} = {KeyOfCall(k) : k \in CompletedCalls}
    /\ Cardinality({en.key : en \in translation_cache}) = Cardinality(translation_cache)
    /\ translation_stats.translated = Cardinality(translation_cache)
    /\ \A k \in CompletedCalls :
          \A en \in translation_cache : en.key = KeyOfCall(k) => en.value = returns[k]
    /\ \A k \in NonBlankCalls :
          Cardinality(RequestsFor(k)) =
              Cardinality({j \in RaisedCalls : KeyOfCall(j) = KeyOfCall(k)})
                + (IF \E j \in CompletedCalls : KeyOfCall(j) = KeyOfCall(k) THEN 1 ELSE 0)
                + (IF pending # NoCall /\ CacheKey(pending.text, pending.context) = KeyOfCall(k)
                   THEN 1 ELSE 0)

\* C30 witness: a pair's request raised and left the cache empty, the pair
\* was met again in another slot and asked again, and the second request
\* completed and filled the cache.
C30_Witness ==
    /\ pending = NoCall
    /\ Cardinality(translation_cache) = 1
    /\ translation_stats.errors = 1
    /\ \E i, j \in NonBlankCalls :
         /\ i < j
         /\ KeyOfCall(i) = KeyOfCall(j)
         /\ calls[i].element # calls[j].element
         /\ returns[i] = None /\ returns[j] # None
         /\ Cardinality(RequestsFor(j)) = 2
         /\ \E en \in translation_cache : en.key = KeyOfCall(j) /\ en.value = returns[j]
====
